---- MODULE Spec2Model ----
(***************************************************************************)
(* Model of the watsonx.data REST client (lakehouse_mcp/client/watsonx.py) *)
(* and of the tool handlers built on it (lakehouse_mcp/tools/...).         *)
(*                                                                         *)
(* Every call is a coroutine on one event loop.  A coroutine runs without  *)
(* interruption until it awaits the HTTP round trip, so a call is two      *)
(* steps: the part up to the dispatch of the request, and the part that    *)
(* runs when the response (or a transport failure) arrives.                *)
(*                                                                         *)
(* Python values are modelled by what the code does with them:             *)
(*   - a str is a TLA+ string, so concatenation, startswith and split are  *)
(*     computed on the characters;                                         *)
(*   - a JSON value is a record [t, s, m]: t its type, s its text when it  *)
(*     is a string, a number, a boolean or None, m its elements when it is *)
(*     a list and its items (key, value), in order, when it is a mapping;  *)
(*   - None and an omitted optional argument are the empty set, a supplied *)
(*     value x is {x}.                                                     *)
(***************************************************************************)
EXTENDS Integers, Sequences, FiniteSets, TLC

\* Number of call slots (identities of calls that may exist at once).
MaxCalls == 2

\* Largest pagination offset a caller passes to list_ingestion_jobs.
MaxStart == 1

Calls == 1..MaxCalls

-----------------------------------------------------------------------------
(* JSON values and the Python operations the code applies to them.         *)

JStr(x) == [t |-> "str", s |-> x, m |-> <<>>]
JNum(x) == [t |-> "num", s |-> x, m |-> <<>>]
JBool(x) == [t |-> "bool", s |-> x, m |-> <<>>]
JList(elems) == [t |-> "list", s |-> "", m |-> elems]
JNull == [t |-> "null", s |-> "None", m |-> <<>>]
JMap(items) == [t |-> "map", s |-> "", m |-> items]

\* The value of `{}`.
EmptyMap == JMap(<<>>)

\* Marks a key that a generated mapping leaves out; never a value of a mapping.
Absent == [t |-> "absent", s |-> "", m |-> <<>>]

Item(k, v) == IF v = Absent THEN <<>> ELSE << <<k, v>> >>

\* `k in d` for a mapping d.
HasKey(d, k) == \E i \in 1..Len(d.m) : d.m[i][1] = k

\* d[k] for a mapping d that has k.
Lookup(d, k) == d.m[CHOOSE i \in 1..Len(d.m) : d.m[i][1] = k][2]

\* dict.get(k, default)
DictGet(d, k, default) == IF HasKey(d, k) THEN Lookup(d, k) ELSE default

\* repr(): a string in quotes, a list and a mapping with the repr of what
\* they hold, None, a number and a boolean as their text.
RECURSIVE PyRepr(_), ElemsRepr(_), ItemsRepr(_)
PyRepr(d) ==
    IF d.t = "str" THEN "'" \o d.s \o "'"
    ELSE IF d.t = "list" THEN "[" \o ElemsRepr(d.m) \o "]"
    ELSE IF d.t = "map" THEN "{" \o ItemsRepr(d.m) \o "}"
    ELSE d.s

ElemsRepr(elems) ==
    IF elems = <<>> THEN ""
    ELSE PyRepr(elems[1])
         \o (IF Len(elems) > 1 THEN ", " ELSE "")
         \o ElemsRepr(Tail(elems))

ItemsRepr(items) ==
    IF items = <<>> THEN ""
    ELSE "'" \o items[1][1] \o "': " \o PyRepr(items[1][2])
         \o (IF Len(items) > 1 THEN ", " ELSE "")
         \o ItemsRepr(Tail(items))

\* str(): a str is itself, anything else is its repr.
PyStr(d) == IF d.t = "str" THEN d.s ELSE PyRepr(d)

\* Python truth value: empty containers, None, 0 and "" are false.
Falsy(d) ==
    \/ d.t = "null"
    \/ d.t = "map" /\ d.m = <<>>
    \/ d.t = "str" /\ d.s = ""
    \/ d.t = "num" /\ d.s = "0"
    \/ d.t = "list" /\ d.m = <<>>
    \/ d.t = "bool" /\ d.s = "False"

\* len() is defined for strings, lists and mappings only.
HasLen(d) == d.t \in {"str", "list", "map"}
PyLen(d) == IF d.t = "str" THEN Len(d.s) ELSE Len(d.m)

\* str.startswith
StartsWith(s, prefix) ==
    Len(s) >= Len(prefix) /\ SubSeq(s, 1, Len(prefix)) = prefix

\* Index of the first "/" of s at or after position i, or Len(s) + 1.
RECURSIVE NextSlash(_, _)
NextSlash(s, i) ==
    IF i > Len(s) THEN Len(s) + 1
    ELSE IF SubSeq(s, i, i) = "/" THEN i
    ELSE NextSlash(s, i + 1)

\* str.split("/")
RECURSIVE SplitFrom(_, _)
SplitFrom(s, i) ==
    LET j == NextSlash(s, i) IN
    IF j > Len(s) THEN << SubSeq(s, i, Len(s)) >>
    ELSE << SubSeq(s, i, j - 1) >> \o SplitFrom(s, j + 1)

Split(s) == SplitFrom(s, 1)

NoneV == {}
Some(x) == {x}
TheValue(o) == CHOOSE x \in o : TRUE

-----------------------------------------------------------------------------
(* Configuration, tokens, responses and exceptions.                        *)

\* WatsonXConfig.base_url and WatsonXConfig.instance_id of the client.
BaseUrl == "https://wx.test/api"
InstanceId == "inst-1"

\* What token_manager.get_token() can do: return a token or raise.
Tokens == {"tokA", "tokB"}
TokenFailures == {[type |-> "ApiException"], [type |-> "ConnectionError"]}
TokenOutcomes ==
    {[ok |-> TRUE, token |-> tk, exc |-> {}] : tk \in Tokens}
    \cup {[ok |-> FALSE, token |-> "", exc |-> {e}] : e \in TokenFailures}

\* What awaiting the httpx request can raise instead of giving a response.
RequestErrors == {[type |-> "ConnectError"], [type |-> "ReadTimeout"]}

RuntimeError(msg) == [type |-> "RuntimeError", message |-> msg]
HTTPStatusError(resp) == [type |-> "HTTPStatusError", response |-> resp]
JSONDecodeError == [type |-> "JSONDecodeError"]
AttributeError == [type |-> "AttributeError"]
TypeError == [type |-> "TypeError"]

\* How a coroutine ends: it returns a value or raises an exception.
Return(v) == [kind |-> "return", value |-> v]
Raise(e) == [kind |-> "raise", exc |-> e]
NoOutcome == [kind |-> "none"]

\* A response content: well-formed JSON text (doc is what it denotes) or not.
JsonContent(d) == [json |-> TRUE, doc |-> d]
TextContent(x) == [json |-> FALSE, doc |-> JStr(x)]

\* response.json(): the document, or ValueError (json.JSONDecodeError).
ResponseJson(resp) ==
    IF resp.content.json THEN [ok |-> TRUE, doc |-> resp.content.doc]
    ELSE [ok |-> FALSE, doc |-> JNull]

\* response.raise_for_status(): raises unless the status is 2xx.
raise_for_status(resp) ==
    IF resp.status_code \in 200..299 THEN {} ELSE {HTTPStatusError(resp)}

NoBody == {}

-----------------------------------------------------------------------------
(* WatsonXClient.                                                          *)

\* Headers of the httpx.AsyncClient, sent with every request.
ClientHeaders ==
    ("Content-Type" :> "application/json")
    @@ ("Accept" :> "application/json")
    @@ ("AuthInstanceId" :> InstanceId)

get_auth_header_without_scheme(token) == ("Authorization" :> token)
get_auth_header(token) == ("Authorization" :> ("Bearer " \o token))

\* url = path if path.startswith("http") else f"{base_url}{path}"
ResolveUrl(path) ==
    IF StartsWith(path, "http") THEN path ELSE BaseUrl \o path

\* The request httpx sends: the per-call headers are merged over the client's.
HttpRequest(method, url, body, auth_headers) ==
    [method |-> method, url |-> url, json |-> body,
     headers |-> auth_headers @@ ClientHeaders]

\* span.set_attribute("http.path", path), first statement of each verb, and
\* span.set_attribute("http.status_code", ...), first statement after the
\* await.
NoSpan == [http_path |-> {}, http_status_code |-> {}]
SpanOnEntry(path) == [NoSpan EXCEPT !.http_path = {path}]
SpanOnResponse(sp, resp) == [sp EXCEPT !.http_status_code = {resp.status_code}]

\* The part of get/post/patch/delete up to the dispatch of the request:
\* resolve the URL, get the token, log the request, send it once.
SendTwice(name, method, path, body, tk) ==
    LET url == ResolveUrl(path) IN
    IF ~tk.ok THEN [exc |-> tk.exc, events |-> <<>>, requests |-> <<>>,
                    got |-> tk, span |-> SpanOnEntry(path)]
    ELSE [exc |-> {}, got |-> tk, span |-> SpanOnEntry(path),
          events |-> << [event |-> "watsonx_" \o name \o "_request",
                         url |-> url, path |-> path] >>,
          requests |-> << HttpRequest(method, url, body, get_auth_header(tk.token)),
                          HttpRequest(method, url, body, get_auth_header(tk.token)) >>]
SendLogsFirst(name, method, path, body, tk) ==
    LET url == ResolveUrl(path)
        request_event == << [event |-> "watsonx_" \o name \o "_request",
                             url |-> url, path |-> path] >>
    IN
    IF ~tk.ok THEN [exc |-> tk.exc, events |-> request_event, requests |-> <<>>,
                    got |-> tk, span |-> SpanOnEntry(path)]
    ELSE [exc |-> {}, got |-> tk, span |-> SpanOnEntry(path),
          events |-> request_event,
          requests |-> << HttpRequest(method, url, body, get_auth_header(tk.token)) >>]
Send(name, method, path, body, tk) ==
    LET url == ResolveUrl(path) IN
    IF ~tk.ok THEN [exc |-> tk.exc, events |-> <<>>, requests |-> <<>>,
                    got |-> tk, span |-> SpanOnEntry(path)]
    ELSE [exc |-> {}, got |-> tk, span |-> SpanOnEntry(path),
          events |-> << [event |-> "watsonx_" \o name \o "_request",
                         url |-> url, path |-> path] >>,
          requests |-> << HttpRequest(method, url, body, get_auth_header(tk.token)) >>]

get_request(path, tk) == Send("get", "GET", path, NoBody, tk)
post_request(path, body, tk) == Send("post", "POST", path, Some(body), tk)
patch_request(path, body, tk) == Send("patch", "PATCH", path, Some(body), tk)
delete_request(path, tk) == Send("delete", "DELETE", path, NoBody, tk)

\* error_data.get("message", error_data.get("exception", str(error_data)))
ErrorMsgExceptionFirst(error_data) ==
    DictGet(error_data, "exception",
            DictGet(error_data, "message", JStr(PyStr(error_data))))
ErrorMsgWholeBody(error_data) == JStr(PyStr(error_data))
ErrorMsg(error_data) ==
    DictGet(error_data, "message",
            DictGet(error_data, "exception", JStr(PyStr(error_data))))

\* f"API Error: {error_msg}\nFull response: {error_data}"
ApiErrorText(error_msg, error_data) ==
    "API Error: " \o PyStr(error_msg) \o "\nFull response: " \o PyStr(error_data)

\* data = response.json(); log success; return data
ParseAndReturn(name, url, resp, calls) ==
    LET j == ResponseJson(resp) IN
    IF j.ok
    THEN [outcome |-> Return(j.doc),
          events |-> << [event |-> "watsonx_" \o name \o "_success",
                         url |-> url, status_code |-> resp.status_code] >>,
          json_calls |-> calls + 1]
    ELSE [outcome |-> Raise(JSONDecodeError), events |-> <<>>,
          json_calls |-> calls + 1]

\* The `if response.status_code >= 400:` block.  `fallthrough` is what runs
\* after it when raise_for_status() returns without raising.
ErrorBlockNoExcept(name, url, resp, fallthrough) ==
    LET j == ResponseJson(resp)
        error_data == j.doc
        error_msg == DictGet(error_data, "message",
                             DictGet(error_data, "exception", JStr(PyStr(error_data))))
    IN
    IF ~j.ok
    THEN [outcome |-> Raise(JSONDecodeError), events |-> <<>>, json_calls |-> 1]
    ELSE IF error_data.t # "map"
    THEN [outcome |-> Raise(AttributeError), events |-> <<>>, json_calls |-> 1]
    ELSE [outcome |-> Raise(RuntimeError(
                          "API Error: " \o PyStr(error_msg)
                          \o "\nFull response: " \o PyStr(error_data))),
          events |-> << [event |-> "watsonx_" \o name \o "_error",
                         url |-> url, status_code |-> resp.status_code,
                         error |-> error_msg, response |-> error_data] >>,
          json_calls |-> 1]
ErrorBlock(name, url, resp, fallthrough) ==
    LET j == ResponseJson(resp)
        error_data == j.doc
        error_msg == ErrorMsg(error_data)
    IN
    IF ~j.ok
    THEN \* except (ValueError, KeyError): response.raise_for_status()
         IF raise_for_status(resp) # {}
         THEN [outcome |-> Raise(TheValue(raise_for_status(resp))),
               events |-> <<>>, json_calls |-> 1]
         ELSE fallthrough
    ELSE IF error_data.t # "map"
    THEN \* error_data.get: AttributeError is not caught by the except clause
         [outcome |-> Raise(AttributeError), events |-> <<>>, json_calls |-> 1]
    ELSE [outcome |-> Raise(RuntimeError(ApiErrorText(error_msg, error_data))),
          events |-> << [event |-> "watsonx_" \o name \o "_error",
                         url |-> url, status_code |-> resp.status_code,
                         error |-> error_msg, response |-> error_data] >>,
          json_calls |-> 1]

\* The part of each verb that runs once the response is there.
get_response(url, resp) ==
    IF resp.status_code >= 400
    THEN ErrorBlock("get", url, resp, ParseAndReturn("get", url, resp, 1))
    ELSE ParseAndReturn("get", url, resp, 0)

post_response(url, resp) ==
    IF resp.status_code >= 400
    THEN ErrorBlock("post", url, resp, ParseAndReturn("post", url, resp, 1))
    ELSE ParseAndReturn("post", url, resp, 0)

patch_response(url, resp) ==
    IF resp.status_code >= 400
    THEN ErrorBlock("patch", url, resp, ParseAndReturn("patch", url, resp, 1))
    ELSE ParseAndReturn("patch", url, resp, 0)

delete_response_always_parse(url, resp) ==
    IF resp.status_code >= 400
    THEN ErrorBlock("delete", url, resp, ParseAndReturn("delete", url, resp, 1))
    ELSE ParseAndReturn("delete", url, resp, 0)
delete_response(url, resp) ==
    IF resp.status_code >= 400
    THEN ErrorBlock("delete", url, resp, ParseAndReturn("delete", url, resp, 1))
    ELSE IF resp.status_code = 204
    THEN [outcome |-> Return(EmptyMap),
          events |-> << [event |-> "watsonx_delete_success",
                         url |-> url, status_code |-> resp.status_code] >>,
          json_calls |-> 0]
    ELSE ParseAndReturn("delete", url, resp, 0)

\* The continuation of the verb that sent `method`.
ClientResponse(method, url, resp) ==
    CASE method = "GET" -> get_response(url, resp)
      [] method = "POST" -> post_response(url, resp)
      [] method = "PATCH" -> patch_response(url, resp)
      [] method = "DELETE" -> delete_response(url, resp)

\* The await of the request raised e: no verb catches it.
ClientFailureAsApiError(e) ==
    [outcome |-> Raise(RuntimeError("API Error: " \o e.type)), events |-> <<>>,
     json_calls |-> 0]
ClientFailure(e) == [outcome |-> Raise(e), events |-> <<>>, json_calls |-> 0]

-----------------------------------------------------------------------------
(* Tool handlers.  Each has a part that runs up to the client call (it     *)
(* builds the path and the body and logs) and a part that runs on the      *)
(* client call's outcome co = [outcome, events, json_calls].               *)

\* str(e) as the handlers log it: the message of a RuntimeError; for the
\* library's exceptions the text is the library's, named here by the type.
ExcStr(e) == IF e.type = "RuntimeError" THEN e.message ELSE e.type

\* A handler's `except Exception as e: logger.error(...); raise`.
LogAndSwallow(co, event, fields) ==
    [outcome |-> Return(EmptyMap),
     events |-> co.events \o << [event |-> event, fields |-> fields,
                                 error |-> ExcStr(co.outcome.exc)] >>,
     json_calls |-> co.json_calls]
LogAndReraise(co, event, fields) ==
    [outcome |-> co.outcome,
     events |-> co.events \o << [event |-> event, fields |-> fields,
                                 error |-> ExcStr(co.outcome.exc)] >>,
     json_calls |-> co.json_calls]

\* A handler's success log followed by its return.
LogAndReturn(co, event, fields, value) ==
    [outcome |-> Return(value),
     events |-> co.events \o << [event |-> event, fields |-> fields] >>,
     json_calls |-> co.json_calls]

\* An exception raised by the handler's own code after the client returned.
RaisedBy(co, e) ==
    [outcome |-> Raise(e), events |-> co.events, json_calls |-> co.json_calls]

\* create_schema ---------------------------------------------------------
create_schema_body(a) ==
    JMap(<< <<"name", JStr(a.schema_name)>>,
            <<"custom_path", JStr(IF a.custom_path # "" THEN a.custom_path ELSE "")>> >>
         \o (IF a.storage_name # ""
             THEN << <<"storage_name", JStr(a.storage_name)>> >> ELSE <<>>))

create_schema_path(a) ==
    "/v3/catalogs/" \o a.catalog_id \o "/schemas?engine_id=" \o a.engine_id

create_schema_result(a, co) ==
    IF co.outcome.kind = "raise"
    THEN LogAndReraise(co, "schema_creation_failed", <<a.catalog_id, a.schema_name>>)
    ELSE LogAndReturn(co, "schema_created", <<a.catalog_id, a.schema_name>>,
                      IF Falsy(co.outcome.value) THEN EmptyMap ELSE co.outcome.value)

\* create_ingestion_job --------------------------------------------------
\* bucket_name, extracted from file_paths when the caller gave none.
BucketNameFromPathFirst(a) ==
    IF StartsWith(a.file_paths, "s3://")
    THEN Some(Split(a.file_paths)[3])
    ELSE a.bucket_name
BucketName(a) ==
    IF a.bucket_name = NoneV /\ StartsWith(a.file_paths, "s3://")
    THEN Some(Split(a.file_paths)[3])
    ELSE a.bucket_name

OptStr(o) == IF o = NoneV THEN JNull ELSE JStr(TheValue(o))

create_ingestion_job_body(a) ==
    JMap(<< <<"job_id", JStr(a.job_id)>>,
            <<"target", JMap(<< <<"catalog", JStr(a.catalog)>>,
                                <<"schema", JStr(a.schema)>>,
                                <<"table", JStr(a.table)>>,
                                <<"write_mode", JStr(a.write_mode)>> >>)>>,
            <<"source", JMap(<< <<"file_paths", JStr(a.file_paths)>>,
                                <<"file_type", JStr(a.file_type)>>,
                                <<"bucket_details",
                                  JMap(<< <<"bucket_name", OptStr(BucketName(a))>>,
                                          <<"bucket_type", JStr(a.bucket_type)>> >>)>> >>
                             \o (IF a.file_type = "csv"
                                 THEN << <<"file_format_properties",
                                           JMap(<< <<"field_delimiter", JStr(a.field_delimiter)>>,
                                                   <<"line_delimiter", JStr(a.line_delimiter)>>,
                                                   <<"escape_character", JStr(a.escape_character)>>,
                                                   <<"header", JBool(a.header)>>,
                                                   <<"encoding", JStr(a.encoding)>> >>)>> >>
                                 ELSE <<>>))>>,
            <<"execute_config", JMap(<< <<"driver_memory", JStr(a.driver_memory)>>,
                                        <<"driver_cores", JNum(a.driver_cores)>>,
                                        <<"executor_memory", JStr(a.executor_memory)>>,
                                        <<"executor_cores", JNum(a.executor_cores)>>,
                                        <<"num_executors", JNum(a.num_executors)>> >>)>> >>
         \o (IF a.engine_id # NoneV
             THEN << <<"engine_id", JStr(TheValue(a.engine_id))>> >> ELSE <<>>))

create_ingestion_job_path == "/v3/lhingestion/api/v1/ingestion/jobs"

create_ingestion_job_result(a, co) ==
    LET failed(x) == LogAndReraise(x, "ingestion_job_creation_failed",
                                   <<a.job_id, a.catalog, a.schema, a.table>>)
    IN
    IF co.outcome.kind = "raise" THEN failed(co)
    ELSE IF co.outcome.value.t # "map"
    THEN \* response.get(...) raises inside the try block
         failed(RaisedBy(co, AttributeError))
    ELSE LogAndReturn(co, "ingestion_job_created",
                      << DictGet(co.outcome.value, "job_id", JNull),
                         DictGet(co.outcome.value, "status", JNull) >>,
                      co.outcome.value)

\* get_ingestion_job -----------------------------------------------------
get_ingestion_job_path(a) == "/v3/lhingestion/api/v1/ingestion/jobs/" \o a.job_id

get_ingestion_job_result(a, co) ==
    IF co.outcome.kind = "raise" THEN co
    ELSE IF co.outcome.value.t # "map" THEN RaisedBy(co, AttributeError)
    ELSE LogAndReturn(co, "ingestion_job_retrieved",
                      << JStr(a.job_id), DictGet(co.outcome.value, "status", JNull) >>,
                      co.outcome.value)

\* list_ingestion_jobs ---------------------------------------------------
\* f"{n}" for an int n.
IntStr(n) == IF n < 0 THEN "-" \o ToString(0 - n) ELSE ToString(n)

list_ingestion_jobs_path_truthy(a) ==
    LET path == "/v3/lhingestion/api/v1/ingestion/jobs"
        query_params ==
            (IF a.start # NoneV /\ TheValue(a.start) # 0
             THEN << "start=" \o IntStr(TheValue(a.start)) >> ELSE <<>>)
            \o (IF a.limit # NoneV /\ TheValue(a.limit) # 0
                THEN << "limit=" \o IntStr(TheValue(a.limit)) >> ELSE <<>>)
    IN
    IF query_params = <<>> THEN path
    ELSE IF Len(query_params) = 1 THEN path \o "?" \o query_params[1]
    ELSE path \o "?" \o query_params[1] \o "&" \o query_params[2]
list_ingestion_jobs_path(a) ==
    LET path == "/v3/lhingestion/api/v1/ingestion/jobs"
        query_params ==
            (IF a.start # NoneV THEN << "start=" \o IntStr(TheValue(a.start)) >> ELSE <<>>)
            \o (IF a.limit # NoneV THEN << "limit=" \o IntStr(TheValue(a.limit)) >> ELSE <<>>)
    IN
    IF query_params = <<>> THEN path
    ELSE IF Len(query_params) = 1 THEN path \o "?" \o query_params[1]
    ELSE path \o "?" \o query_params[1] \o "&" \o query_params[2]

list_ingestion_jobs_result(a, co) ==
    IF co.outcome.kind = "raise" THEN co
    ELSE IF co.outcome.value.t # "map" THEN RaisedBy(co, AttributeError)
    ELSE IF ~HasLen(DictGet(co.outcome.value, "ingestion_jobs", JList(<<>>)))
    THEN \* len() of None or of a number
         RaisedBy(co, TypeError)
    ELSE LogAndReturn(co, "ingestion_jobs_listed",
                      << PyLen(DictGet(co.outcome.value, "ingestion_jobs", JList(<<>>))) >>,
                      co.outcome.value)

\* delete_ingestion_job --------------------------------------------------
delete_ingestion_job_path(a) == "/v3/ingestion_jobs/" \o a.job_id

delete_ingestion_job_result(a, co) ==
    IF co.outcome.kind = "raise"
    THEN LogAndReraise(co, "ingestion_job_deletion_failed", << a.job_id >>)
    ELSE LogAndReturn(co, "ingestion_job_deleted", << a.job_id >>, co.outcome.value)

ClientVerbs == {"get", "post", "patch", "delete"}

\* What the entry point t makes of its client call's outcome; a caller of
\* the client itself gets the outcome as it is.
EntryResult(t, a, co) ==
    CASE t = "create_schema" -> create_schema_result(a, co)
      [] t = "create_ingestion_job" -> create_ingestion_job_result(a, co)
      [] t = "get_ingestion_job" -> get_ingestion_job_result(a, co)
      [] t = "list_ingestion_jobs" -> list_ingestion_jobs_result(a, co)
      [] t = "delete_ingestion_job" -> delete_ingestion_job_result(a, co)
      [] OTHER -> co

-----------------------------------------------------------------------------
(* Inputs: what callers pass and what the remote service answers.          *)

\* Paths given to the client directly: relative ones, absolute URLs, a URL
\* of another scheme, and a relative path whose first characters are "http".
Paths == {"/v3/x", "http://h/x", "https://h/x", "ftp://h/x", "httpbin/x"}

RequestBodies == {JMap(<< <<"description", JStr("d")>> >>)}

JobIds == {"job-123"}

\* Pagination arguments of list_ingestion_jobs: omitted, or a number.
Starts == {NoneV} \cup {Some(n) : n \in 0..MaxStart}
Limits == {NoneV, Some(10), Some(0 - 1)}

\* Status codes on both sides of every comparison the client makes.
Statuses == {200, 204, 399, 400, 404}

\* Mappings with every combination of the keys the code looks at.
ProbedMaps ==
    {JMap(Item("message", a) \o Item("exception", b) \o Item("error", e)
          \o Item("ingestion_jobs", j)) :
        a \in {Absent, JStr("boom"), JNull},
        b \in {Absent, JStr("NotFound")},
        e \in {Absent, JStr("Ingestion job not found")},
        j \in {Absent, JList(<< JStr("job-1") >>), JNull}}

\* The bodies of the test suite's scenarios.
JobCreated ==
    JMap(<< <<"job_id", JStr("job-123")>>, <<"status", JStr("starting")>>,
            <<"start_timestamp", JStr("1770411298720316572")>> >>)
JobPage ==
    JMap(<< <<"ingestion_jobs",
              JList(<< JMap(<< <<"job_id", JStr("job-123")>>,
                               <<"status", JStr("running")>> >>) >>)>>,
            <<"total_count", JNum("50")>>, <<"page", JNum("2")>> >>)

JsonDocs ==
    ProbedMaps \cup {JobCreated, JobPage}
    \cup {JList(<<>>), JStr("oops"), JNum("0"), JNull}

Contents ==
    {JsonContent(d) : d \in JsonDocs} \cup {TextContent("<html>"), TextContent("")}

Responses == [status_code : Statuses, content : Contents]

\* Defaults of create_ingestion_job's parameters.
IngestionDefaults ==
    [bucket_type |-> "ibm_cos", write_mode |-> "append", field_delimiter |-> ",",
     line_delimiter |-> "\n", escape_character |-> "\\", header |-> "True",
     encoding |-> "UTF-8", driver_memory |-> "2G", driver_cores |-> "1",
     executor_memory |-> "2G", executor_cores |-> "1", num_executors |-> "1"]

\* What __aexit__(*args) does with the exception `exc` ({} when the block
\* ended normally): it awaits close() and returns None, which is falsy.
ExitResultKeepsOpenOnFailure(exc) == [closes |-> exc = {}, suppresses |-> FALSE]
ExitResult(exc) == [closes |-> TRUE, suppresses |-> FALSE]

-----------------------------------------------------------------------------
(* State: one record of fields per call slot.                              *)

VARIABLES
    pc,           \* "idle", "awaiting" (request sent, coroutine suspended), "done"
    tool,         \* the entry point called: a client verb or a tool handler
    args,         \* its arguments
    token_calls,  \* how many times the call asked token_manager for a token
    requests,     \* the HTTP requests the call dispatched, in order
    response,     \* the response it received: {} or {resp}
    json_calls,   \* how many times it called response.json()
    outcome,      \* how it ended, seen by the caller of the entry point
    log,          \* the events it logged, in order
    token,        \* what get_token() did in the call: {} or {a token outcome}
    failure,      \* what the await of the request raised: {} or {e}
    client_outcome, \* how the call of the client's verb ended
    span,         \* the attributes the call set on its tracing span
    scope,        \* the `async with` block around the client
    closed,       \* whether the httpx client was closed
    overlapped    \* history: the call awaited while another call did

vars == <<pc, tool, args, token_calls, requests, response, json_calls, outcome, log,
          token, failure, client_outcome, span, scope, closed, overlapped>>

NoArgs == [none |-> TRUE]

\* The `async with` block: not entered, entered, or left; the exception
\* raised inside it that made it leave, and the one the block raised on.
NoScope == [at |-> "none", raised |-> {}, propagated |-> {}]

Init ==
    /\ pc = [c \in Calls |-> "idle"]
    /\ tool = [c \in Calls |-> "none"]
    /\ args = [c \in Calls |-> NoArgs]
    /\ token_calls = [c \in Calls |-> 0]
    /\ requests = [c \in Calls |-> <<>>]
    /\ response = [c \in Calls |-> {}]
    /\ json_calls = [c \in Calls |-> 0]
    /\ outcome = [c \in Calls |-> NoOutcome]
    /\ log = [c \in Calls |-> <<>>]
    /\ token = [c \in Calls |-> {}]
    /\ failure = [c \in Calls |-> {}]
    /\ client_outcome = [c \in Calls |-> NoOutcome]
    /\ span = [c \in Calls |-> NoSpan]
    /\ scope = NoScope
    /\ closed = FALSE
    /\ overlapped = [c \in Calls |-> FALSE]

\* Callers of this specification call one at a time.
AllIdle == \A d \in Calls : pc[d] = "idle"

\* Entry point t is called with arguments a in slot c.  `pre` are the events
\* it logs before calling the client, b what the client does up to the
\* dispatch.  When get_token raised, the call ends here.
Begin(c, t, a, pre, b) ==
    /\ ~closed
    /\ tool' = [tool EXCEPT ![c] = t]
    /\ args' = [args EXCEPT ![c] = a]
    /\ token_calls' = [token_calls EXCEPT ![c] = 1]
    /\ requests' = [requests EXCEPT ![c] = b.requests]
    /\ token' = [token EXCEPT ![c] = {b.got}]
    /\ span' = [span EXCEPT ![c] = b.span]
    /\ UNCHANGED <<response, json_calls, failure, scope, closed>>
    /\ overlapped' =
         IF b.exc = {} /\ \E d \in Calls \ {c} : pc[d] = "awaiting"
         THEN [d \in Calls |-> d = c \/ pc[d] = "awaiting" \/ overlapped[d]]
         ELSE overlapped
    /\ IF b.exc # {}
       THEN LET r == EntryResult(t, a, [outcome |-> Raise(TheValue(b.exc)),
                                        events |-> b.events, json_calls |-> 0])
            IN /\ pc' = [pc EXCEPT ![c] = "done"]
               /\ client_outcome' = [client_outcome EXCEPT ![c] = Raise(TheValue(b.exc))]
               /\ outcome' = [outcome EXCEPT ![c] = r.outcome]
               /\ log' = [log EXCEPT ![c] = pre \o r.events]
       ELSE /\ pc' = [pc EXCEPT ![c] = "awaiting"]
            /\ client_outcome' = client_outcome
            /\ outcome' = outcome
            /\ log' = [log EXCEPT ![c] = pre \o b.events]

\* In this specification the caller awaits each call before the next.
Start(c, t, a, pre, b) == AllIdle /\ Begin(c, t, a, pre, b)

\* Direct calls of the client's four verbs.
get(c) ==
    /\ pc[c] = "idle"
    /\ \E path \in Paths, tk \in TokenOutcomes :
        Start(c, "get", [path |-> path], <<>>, get_request(path, tk))

post(c) ==
    /\ pc[c] = "idle"
    /\ \E path \in Paths, body \in RequestBodies, tk \in TokenOutcomes :
        Start(c, "post", [path |-> path, body |-> body], <<>>,
              post_request(path, body, tk))

patch(c) ==
    /\ pc[c] = "idle"
    /\ \E path \in Paths, body \in RequestBodies, tk \in TokenOutcomes :
        Start(c, "patch", [path |-> path, body |-> body], <<>>,
              patch_request(path, body, tk))

delete(c) ==
    /\ pc[c] = "idle"
    /\ \E path \in Paths, tk \in TokenOutcomes :
        Start(c, "delete", [path |-> path], <<>>, delete_request(path, tk))

\* The tool handlers.
create_schema(c) ==
    /\ pc[c] = "idle"
    /\ \E custom_path \in {"", "p"}, storage_name \in {"", "bkt"}, tk \in TokenOutcomes :
        LET a == [catalog_id |-> "iceberg_data", schema_name |-> "s1",
                  engine_id |-> "presto-01", custom_path |-> custom_path,
                  storage_name |-> storage_name]
        IN Start(c, "create_schema", a,
                 << [event |-> "creating_schema",
                     fields |-> <<a.catalog_id, a.schema_name, a.engine_id>>] >>,
                 post_request(create_schema_path(a), create_schema_body(a), tk))

create_ingestion_job(c) ==
    /\ pc[c] = "idle"
    /\ \E job_id \in JobIds, file_paths \in {"s3://bkt/d/f.csv", "s3://bkt", "/d/f.csv"},
       file_type \in {"csv", "parquet"}, bucket_name \in {NoneV, Some("mine")},
       engine_id \in {NoneV, Some("spark-01")}, tk \in TokenOutcomes :
        LET a == [job_id |-> job_id, catalog |-> "iceberg_data", schema |-> "default",
                  table |-> "t1", file_paths |-> file_paths, file_type |-> file_type,
                  bucket_name |-> bucket_name, engine_id |-> engine_id]
                 @@ IngestionDefaults
        IN Start(c, "create_ingestion_job", a,
                 << [event |-> "creating_ingestion_job",
                     fields |-> <<a.job_id, a.file_paths, a.file_type,
                                  a.catalog, a.schema, a.table>>] >>,
                 post_request(create_ingestion_job_path, create_ingestion_job_body(a), tk))

get_ingestion_job(c) ==
    /\ pc[c] = "idle"
    /\ \E job_id \in JobIds, tk \in TokenOutcomes :
        LET a == [job_id |-> job_id]
        IN Start(c, "get_ingestion_job", a,
                 << [event |-> "getting_ingestion_job", fields |-> <<a.job_id>>] >>,
                 get_request(get_ingestion_job_path(a), tk))

list_ingestion_jobs(c) ==
    /\ pc[c] = "idle"
    /\ \E start \in Starts, limit \in Limits, tk \in TokenOutcomes :
        LET a == [start |-> start, limit |-> limit]
        IN Start(c, "list_ingestion_jobs", a,
                 << [event |-> "listing_ingestion_jobs", fields |-> <<a.start, a.limit>>] >>,
                 get_request(list_ingestion_jobs_path(a), tk))

delete_ingestion_job(c) ==
    /\ pc[c] = "idle"
    /\ \E job_id \in JobIds, tk \in TokenOutcomes :
        LET a == [job_id |-> job_id]
        IN Start(c, "delete_ingestion_job", a,
                 << [event |-> "deleting_ingestion_job", fields |-> <<a.job_id>>] >>,
                 delete_request(delete_ingestion_job_path(a), tk))

\* The call's coroutine resumes with what the client made of `co`.
Finish(c, co) ==
    LET r == EntryResult(tool[c], args[c], co) IN
    /\ pc' = [pc EXCEPT ![c] = "done"]
    /\ json_calls' = [json_calls EXCEPT ![c] = r.json_calls]
    /\ client_outcome' = [client_outcome EXCEPT ![c] = co.outcome]
    /\ outcome' = [outcome EXCEPT ![c] = r.outcome]
    /\ log' = [log EXCEPT ![c] = @ \o r.events]
    /\ UNCHANGED <<tool, args, token_calls, requests, token, scope, closed, overlapped>>

\* `response = await self.client.<verb>(...)`: the name `response` is a
\* local of the coroutine, so after the await call c holds the answer to its
\* own request.  (The variant reads an attribute shared by the calls.)
AwaitedShared(c, resp) ==
    LET others == {d \in Calls \ {c} : response[d] # {}} IN
    IF others = {} THEN resp ELSE TheValue(response[CHOOSE d \in others : TRUE])
Awaited(c, resp) == resp

\* The remote service answers the request of call c.
Answer(c, resp) ==
    /\ response' = [response EXCEPT ![c] = {resp}]
    /\ failure' = failure
    /\ span' = [span EXCEPT ![c] = SpanOnResponse(@, Awaited(c, resp))]
    /\ Finish(c, ClientResponse(requests[c][1].method, requests[c][1].url,
                                Awaited(c, resp)))

Respond(c) ==
    /\ pc[c] = "awaiting"
    /\ \E resp \in Responses : Answer(c, resp)

\* The request of call c fails in the transport: no response.
Fail(c, e) ==
    /\ response' = response
    /\ failure' = [failure EXCEPT ![c] = {e}]
    /\ span' = span
    /\ Finish(c, ClientFailure(e))

TransportFailure(c) ==
    /\ pc[c] = "awaiting"
    /\ \E e \in RequestErrors : Fail(c, e)

\* The caller takes the outcome; the slot is free for another call.
Collect(c) ==
    /\ pc[c] = "done"
    /\ pc' = [pc EXCEPT ![c] = "idle"]
    /\ tool' = [tool EXCEPT ![c] = "none"]
    /\ args' = [args EXCEPT ![c] = NoArgs]
    /\ token_calls' = [token_calls EXCEPT ![c] = 0]
    /\ requests' = [requests EXCEPT ![c] = <<>>]
    /\ response' = [response EXCEPT ![c] = {}]
    /\ json_calls' = [json_calls EXCEPT ![c] = 0]
    /\ outcome' = [outcome EXCEPT ![c] = NoOutcome]
    /\ log' = [log EXCEPT ![c] = <<>>]
    /\ token' = [token EXCEPT ![c] = {}]
    /\ failure' = [failure EXCEPT ![c] = {}]
    /\ client_outcome' = [client_outcome EXCEPT ![c] = NoOutcome]
    /\ span' = [span EXCEPT ![c] = NoSpan]
    /\ overlapped' = [overlapped EXCEPT ![c] = FALSE]
    /\ UNCHANGED <<scope, closed>>

\* async def __aenter__(self): return self
aenter ==
    /\ scope.at = "none"
    /\ AllIdle
    /\ ~closed
    /\ scope' = [scope EXCEPT !.at = "entered"]
    /\ UNCHANGED <<pc, tool, args, token_calls, requests, response, json_calls,
                   outcome, log, token, failure, client_outcome, span, closed,
                   overlapped>>

\* The block is left: at its end (exc = {}), or by the exception a call
\* inside it raised to it.  __aexit__ closes the client and returns None.
aexit ==
    /\ scope.at = "entered"
    /\ \A d \in Calls : pc[d] # "awaiting"
    /\ \E exc \in {{}} \cup {{outcome[d].exc} :
                         d \in {k \in Calls : pc[k] = "done" /\ outcome[k].kind = "raise"}} :
        LET r == ExitResult(exc) IN
        /\ closed' = (closed \/ r.closes)
        /\ scope' = [at |-> "exited", raised |-> exc,
                     propagated |-> IF r.suppresses THEN {} ELSE exc]
    /\ UNCHANGED <<pc, tool, args, token_calls, requests, response, json_calls,
                   outcome, log, token, failure, client_outcome, span, overlapped>>

\* async def close(self): await self.client.aclose(), called by the owner
\* of a client that is not used as a context manager.
close ==
    /\ scope.at = "none"
    /\ AllIdle
    /\ ~closed
    /\ closed' = TRUE
    /\ UNCHANGED <<pc, tool, args, token_calls, requests, response, json_calls,
                   outcome, log, token, failure, client_outcome, span, scope,
                   overlapped>>

Next ==
    \E c \in Calls :
        \/ get(c)
        \/ post(c)
        \/ patch(c)
        \/ delete(c)
        \/ create_schema(c)
        \/ create_ingestion_job(c)
        \/ get_ingestion_job(c)
        \/ list_ingestion_jobs(c)
        \/ delete_ingestion_job(c)
        \/ Respond(c)
        \/ TransportFailure(c)
        \/ Collect(c)
        \/ aenter
        \/ aexit
        \/ close

Spec == Init /\ [][Next]_vars

-----------------------------------------------------------------------------
(* Concurrent use: tool handlers call one client from several tasks, so a  *)
(* call may start while others await their responses.  The inputs are      *)
(* fewer than above: one path, one token, three answers, one failure.      *)

ConcToken == [ok |-> TRUE, token |-> "tokA", exc |-> {}]
ConcBody == JMap(<< <<"name", JStr("s1")>> >>)
ConcResponses ==
    {[status_code |-> 200, content |-> JsonContent(JobCreated)],
     [status_code |-> 404,
      content |-> JsonContent(JMap(<< <<"message", JStr("boom")>> >>))],
     [status_code |-> 404, content |-> TextContent("<html>")]}
ConcRequestErrors == {[type |-> "ConnectError"]}

get_concurrently(c) ==
    /\ pc[c] = "idle"
    /\ Begin(c, "get", [path |-> "/v3/x"], <<>>, get_request("/v3/x", ConcToken))

post_concurrently(c) ==
    /\ pc[c] = "idle"
    /\ Begin(c, "post", [path |-> "/v3/x", body |-> ConcBody], <<>>,
             post_request("/v3/x", ConcBody, ConcToken))

patch_concurrently(c) ==
    /\ pc[c] = "idle"
    /\ Begin(c, "patch", [path |-> "/v3/x", body |-> ConcBody], <<>>,
             patch_request("/v3/x", ConcBody, ConcToken))

delete_concurrently(c) ==
    /\ pc[c] = "idle"
    /\ Begin(c, "delete", [path |-> "/v3/x"], <<>>, delete_request("/v3/x", ConcToken))

create_schema_concurrently(c) ==
    /\ pc[c] = "idle"
    /\ LET a == [catalog_id |-> "iceberg_data", schema_name |-> "s1",
                 engine_id |-> "presto-01", custom_path |-> "", storage_name |-> ""]
       IN Begin(c, "create_schema", a,
                << [event |-> "creating_schema",
                    fields |-> <<a.catalog_id, a.schema_name, a.engine_id>>] >>,
                post_request(create_schema_path(a), create_schema_body(a), ConcToken))

create_ingestion_job_concurrently(c) ==
    /\ pc[c] = "idle"
    /\ LET a == [job_id |-> "job-123", catalog |-> "iceberg_data", schema |-> "default",
                 table |-> "t1", file_paths |-> "s3://bkt/d/f.csv", file_type |-> "csv",
                 bucket_name |-> NoneV, engine_id |-> NoneV]
                @@ IngestionDefaults
       IN Begin(c, "create_ingestion_job", a,
                << [event |-> "creating_ingestion_job",
                    fields |-> <<a.job_id, a.file_paths, a.file_type,
                                 a.catalog, a.schema, a.table>>] >>,
                post_request(create_ingestion_job_path, create_ingestion_job_body(a),
                             ConcToken))

get_ingestion_job_concurrently(c) ==
    /\ pc[c] = "idle"
    /\ LET a == [job_id |-> "job-123"]
       IN Begin(c, "get_ingestion_job", a,
                << [event |-> "getting_ingestion_job", fields |-> <<a.job_id>>] >>,
                get_request(get_ingestion_job_path(a), ConcToken))

list_ingestion_jobs_concurrently(c) ==
    /\ pc[c] = "idle"
    /\ LET a == [start |-> NoneV, limit |-> NoneV]
       IN Begin(c, "list_ingestion_jobs", a,
                << [event |-> "listing_ingestion_jobs", fields |-> <<a.start, a.limit>>] >>,
                get_request(list_ingestion_jobs_path(a), ConcToken))

delete_ingestion_job_concurrently(c) ==
    /\ pc[c] = "idle"
    /\ LET a == [job_id |-> "job-123"]
       IN Begin(c, "delete_ingestion_job", a,
                << [event |-> "deleting_ingestion_job", fields |-> <<a.job_id>>] >>,
                delete_request(delete_ingestion_job_path(a), ConcToken))

RespondConcurrently(c) ==
    /\ pc[c] = "awaiting"
    /\ \E resp \in ConcResponses : Answer(c, resp)

TransportFailureConcurrently(c) ==
    /\ pc[c] = "awaiting"
    /\ \E e \in ConcRequestErrors : Fail(c, e)

NextConc ==
    \E c \in Calls :
        \/ get_concurrently(c)
        \/ post_concurrently(c)
        \/ patch_concurrently(c)
        \/ delete_concurrently(c)
        \/ create_schema_concurrently(c)
        \/ create_ingestion_job_concurrently(c)
        \/ get_ingestion_job_concurrently(c)
        \/ list_ingestion_jobs_concurrently(c)
        \/ delete_ingestion_job_concurrently(c)
        \/ RespondConcurrently(c)
        \/ TransportFailureConcurrently(c)
        \/ Collect(c)

SpecConc == Init /\ [][NextConc]_vars

-----------------------------------------------------------------------------
(* Vocabulary of the properties.                                           *)

\* Call c got a response and ran to its end.
Answered(c) == pc[c] = "done" /\ response[c] # {}
Resp(c) == TheValue(response[c])
Doc(c) == Resp(c).content.doc
Method(c) == requests[c][1].method

\* Call c was answered with status 400 or above and a JSON mapping.
ErrorMapping(c) ==
    /\ Answered(c)
    /\ Resp(c).status_code >= 400
    /\ Resp(c).content.json
    /\ Doc(c).t = "map"

\* The value logged as `error` by the client's error event of call c.
ErrorEvents == {"watsonx_get_error", "watsonx_post_error",
                "watsonx_patch_error", "watsonx_delete_error"}
LoggedErrors(c) ==
    {log[c][i].error : i \in {k \in 1..Len(log[c]) : log[c][k].event \in ErrorEvents}}

IngestionHandlers == {"create_ingestion_job", "get_ingestion_job",
                      "list_ingestion_jobs", "delete_ingestion_job"}

\* s starts with a URL scheme: a letter, then letters, digits, "+", "-" or
\* ".", then "://".
Letters == {"a", "b", "c", "d", "e", "f", "g", "h", "i", "j", "k", "l", "m",
            "n", "o", "p", "q", "r", "s", "t", "u", "v", "w", "x", "y", "z"}
SchemeChars == Letters \cup {"0", "1", "2", "3", "4", "5", "6", "7", "8", "9",
                             "+", "-", "."}
HasScheme(s) ==
    \E i \in 2..(Len(s) - 2) :
        /\ SubSeq(s, i, i + 2) = "://"
        /\ SubSeq(s, 1, 1) \in Letters
        /\ \A k \in 1..(i - 1) : SubSeq(s, k, k) \in SchemeChars

-----------------------------------------------------------------------------
(* C1 *)

\* C1: for each verb, a response with status below 400 (other than a 204
\* answer to DELETE) makes the call return exactly the parsed JSON body, and
\* each ingestion tool handler returns that same mapping to its caller.
C1_SuccessReturnsParsedBody ==
    \A c \in Calls :
        ( /\ Answered(c)
          /\ Resp(c).status_code < 400
          /\ Resp(c).content.json
          /\ ~(Method(c) = "DELETE" /\ Resp(c).status_code = 204) )
        => /\ tool[c] \in ClientVerbs => outcome[c] = Return(Doc(c))
           /\ (tool[c] \in IngestionHandlers /\ Doc(c).t = "map")
                => outcome[c] = Return(Doc(c))

\* The part of C1 that the code keeps: the four verbs return the parsed body,
\* and so do three of the handlers; list_ingestion_jobs does when the body's
\* `ingestion_jobs` is absent or has a length.
C1_ClientReturnsParsedBody ==
    \A c \in Calls :
        ( /\ Answered(c)
          /\ Resp(c).status_code < 400
          /\ Resp(c).content.json
          /\ ~(Method(c) = "DELETE" /\ Resp(c).status_code = 204) )
        => /\ tool[c] \in ClientVerbs => outcome[c] = Return(Doc(c))
           /\ ( /\ tool[c] \in IngestionHandlers
                /\ Doc(c).t = "map"
                /\ tool[c] = "list_ingestion_jobs"
                     => HasLen(DictGet(Doc(c), "ingestion_jobs", JList(<<>>))) )
                => outcome[c] = Return(Doc(c))

-----------------------------------------------------------------------------
(* C2 *)

\* C2: a DELETE answered with status 204 returns an empty mapping whatever
\* the body is, and response.json() is never called.
C2_Delete204ReturnsEmpty ==
    \A c \in Calls :
        ( /\ Answered(c)
          /\ tool[c] \in {"delete", "delete_ingestion_job"}
          /\ Resp(c).status_code = 204 )
        => /\ outcome[c] = Return(EmptyMap)
           /\ json_calls[c] = 0

\* A DELETE was answered 204 with a body that is not JSON and returned {}.
C2_Witness ==
    \E c \in Calls :
        /\ Answered(c)
        /\ tool[c] = "delete"
        /\ Resp(c).status_code = 204
        /\ ~Resp(c).content.json
        /\ outcome[c] = Return(EmptyMap)

-----------------------------------------------------------------------------
(* C3 *)

\* The field the claim speaks of: `message` when present, else `exception`.
C3_Field(c) ==
    IF HasKey(Doc(c), "message") THEN Lookup(Doc(c), "message")
    ELSE Lookup(Doc(c), "exception")

\* C3 as stated: with status 400 or above and a mapping that has `message`
\* (or, without it, `exception`), the message of the raised error equals the
\* value of that field.
C3_MessageEqualsField ==
    \A c \in Calls :
        ( /\ ErrorMapping(c)
          /\ HasKey(Doc(c), "message") \/ HasKey(Doc(c), "exception") )
        => /\ outcome[c].kind = "raise"
           /\ "message" \in DOMAIN outcome[c].exc
           /\ outcome[c].exc.message = PyStr(C3_Field(c))

\* C3 amended: the message of the raised error holds the value of that
\* field between fixed texts: it is "API Error: ", str() of the field's
\* value, "\nFull response: " and str() of the whole body.
C3_MessageEmbedsField ==
    \A c \in Calls :
        ( /\ ErrorMapping(c)
          /\ HasKey(Doc(c), "message") \/ HasKey(Doc(c), "exception") )
        => /\ outcome[c].kind = "raise"
           /\ outcome[c].exc.type = "RuntimeError"
           /\ outcome[c].exc.message =
                "API Error: " \o PyStr(C3_Field(c))
                \o "\nFull response: " \o PyStr(Doc(c))

\* An error mapping without `message` and with `exception` raised the error.
C3_Witness ==
    \E c \in Calls :
        /\ ErrorMapping(c)
        /\ ~HasKey(Doc(c), "message")
        /\ HasKey(Doc(c), "exception")
        /\ outcome[c].kind = "raise"
        /\ outcome[c].exc.type = "RuntimeError"

-----------------------------------------------------------------------------
(* C4 *)

\* C4: the extracted message is `message` whenever it is present, also next
\* to `exception`; `exception` only when `message` is absent; the stringified
\* body only when both are absent; and the call raises.
C4_OrderedFallback ==
    \A c \in Calls :
        ErrorMapping(c)
        => /\ outcome[c].kind = "raise"
           /\ LoggedErrors(c) =
                { IF HasKey(Doc(c), "message") THEN Lookup(Doc(c), "message")
                  ELSE IF HasKey(Doc(c), "exception") THEN Lookup(Doc(c), "exception")
                  ELSE JStr(PyStr(Doc(c))) }

\* The test's scenario: delete_ingestion_job answered 404 with a body that
\* holds only `error` raised, with the stringified body as the message.
C4_Witness ==
    \E c \in Calls :
        /\ Answered(c)
        /\ tool[c] = "delete_ingestion_job"
        /\ Resp(c).status_code = 404
        /\ Resp(c).content = JsonContent(JMap(<< <<"error", JStr("Ingestion job not found")>> >>))
        /\ outcome[c].kind = "raise"
        /\ LoggedErrors(c) = { JStr("{'error': 'Ingestion job not found'}") }

-----------------------------------------------------------------------------
(* C5 *)

\* Exception e carries the status code of resp as an attribute of its own or
\* of the response it holds.
CarriesStatus(e, resp) ==
    \/ "status_code" \in DOMAIN e /\ e.status_code = resp.status_code
    \/ "response" \in DOMAIN e /\ e.response.status_code = resp.status_code

\* C5: the error raised for status 400 or above with a JSON mapping carries
\* the status code, the extracted message and the body.
C5_ApiErrorCarriesStatus ==
    \A c \in Calls :
        ErrorMapping(c)
        => /\ outcome[c].kind = "raise"
           /\ CarriesStatus(outcome[c].exc, Resp(c))

-----------------------------------------------------------------------------
(* C6 *)

\* C6: with status 400 or above and a body that is not JSON, the error
\* raised is the HTTP status error holding the response, so its status code;
\* it is not of the kind raised for a parseable body, and a parseable body
\* never raises it.
C6_UnparseableRaisesStatusError ==
    \A c \in Calls :
        (Answered(c) /\ Resp(c).status_code >= 400)
        => /\ outcome[c].kind = "raise"
           /\ ~Resp(c).content.json
                => /\ outcome[c].exc.type = "HTTPStatusError"
                   /\ outcome[c].exc.response.status_code = Resp(c).status_code
           /\ Resp(c).content.json => outcome[c].exc.type # "HTTPStatusError"

\* A PATCH was answered 404 with a body that is not JSON.
C6_Witness ==
    \E c \in Calls :
        /\ Answered(c)
        /\ tool[c] = "patch"
        /\ Resp(c).status_code = 404
        /\ ~Resp(c).content.json
        /\ outcome[c].kind = "raise"
        /\ outcome[c].exc.type = "HTTPStatusError"

-----------------------------------------------------------------------------
(* C7 *)

\* C7: a path that starts with a URL scheme is the request URL as it is; any
\* other path is sent to the base URL followed by the path.
C7_UrlResolution ==
    \A c \in Calls :
        (tool[c] \in ClientVerbs /\ requests[c] # <<>>)
        => requests[c][1].url =
             IF HasScheme(args[c].path) THEN args[c].path
             ELSE BaseUrl \o args[c].path

-----------------------------------------------------------------------------
(* C8 *)

\* C8: a call dispatches at most one HTTP request and asks the client at
\* most once, whatever its outcome.
C8_AtMostOneRequest ==
    \A c \in Calls :
        /\ Len(requests[c]) <= 1
        /\ token_calls[c] <= 1

\* A tool handler's call failed in the transport after its one request.
C8_Witness ==
    \E c \in Calls :
        /\ pc[c] = "done"
        /\ tool[c] = "create_ingestion_job"
        /\ response[c] = {}
        /\ outcome[c].kind = "raise"
        /\ outcome[c].exc \in RequestErrors
        /\ Len(requests[c]) = 1

-----------------------------------------------------------------------------
(* C11 *)

\* C11: every HTTP request a call dispatched carries exactly the four
\* headers: Content-Type and Accept application/json, AuthInstanceId with
\* the configured instance id, and Authorization with "Bearer " followed by
\* the token get_token() returned in that same call.
C11_RequestHeaders ==
    \A c \in Calls :
        \A i \in 1..Len(requests[c]) :
            LET h == requests[c][i].headers IN
            /\ token[c] # {}
            /\ TheValue(token[c]).ok
            /\ DOMAIN h = {"Content-Type", "Accept", "AuthInstanceId", "Authorization"}
            /\ h["Content-Type"] = "application/json"
            /\ h["Accept"] = "application/json"
            /\ h["AuthInstanceId"] = InstanceId
            /\ h["Authorization"] = "Bearer " \o TheValue(token[c]).token

\* A DELETE, which has no body, was dispatched with the second token.
C11_Witness ==
    \E c \in Calls :
        /\ pc[c] = "awaiting"
        /\ tool[c] = "delete"
        /\ TheValue(token[c]).token = "tokB"
        /\ Len(requests[c]) = 1
        /\ requests[c][1].headers["Authorization"] = "Bearer tokB"
        /\ requests[c][1].headers["Content-Type"] = "application/json"

-----------------------------------------------------------------------------
(* C12 *)

\* The kinds of error the client raises for a call that was answered.
C12_AnsweredErrorTypes ==
    {"RuntimeError", "HTTPStatusError", "JSONDecodeError", "AttributeError"}

\* C12: a call whose request failed in the transport (connection failure or
\* timeout) ends by raising that failure itself, from the client and to the
\* caller of the entry point; its kind is none of the kinds the client raises
\* for an answered request, and no value is returned.
C12_TransportFailureSurfaces ==
    \A c \in Calls :
        /\ (pc[c] = "done" /\ failure[c] # {})
             => /\ client_outcome[c] = Raise(TheValue(failure[c]))
                /\ outcome[c] = Raise(TheValue(failure[c]))
                /\ TheValue(failure[c]).type \notin C12_AnsweredErrorTypes
        /\ (Answered(c) /\ client_outcome[c].kind = "raise")
             => client_outcome[c].exc.type \in C12_AnsweredErrorTypes

\* A POST timed out: the caller got the timeout.
C12_Witness ==
    \E c \in Calls :
        /\ pc[c] = "done"
        /\ tool[c] = "post"
        /\ failure[c] = {[type |-> "ReadTimeout"]}
        /\ outcome[c] = Raise([type |-> "ReadTimeout"])

-----------------------------------------------------------------------------
(* C13 *)

RequestEvents == {"watsonx_get_request", "watsonx_post_request",
                  "watsonx_patch_request", "watsonx_delete_request"}

\* Position i of call c's log holds its request event, with the URL.
C13_RequestEventAt(c, i) ==
    /\ log[c][i].event \in RequestEvents
    /\ "url" \in DOMAIN log[c][i]
    /\ log[c][i].url = requests[c][1].url

\* Position j of call c's log holds an event with the URL and the status.
C13_CompletionEventAt(c, j) ==
    /\ {"url", "status_code"} \subseteq DOMAIN log[c][j]
    /\ log[c][j].url = requests[c][1].url
    /\ log[c][j].status_code = Resp(c).status_code

\* The tracing span of call c holds the URL and the status.
C13_SpanCarriesUrlAndStatus(c) ==
    /\ span[c].http_path = {requests[c][1].url}
    /\ span[c].http_status_code = {Resp(c).status_code}

\* C13: a call that dispatched a request logged a request event with the URL;
\* an answered call has, after it, a completion event with the URL and the
\* status code (in the log, or as attributes of its span), on the success
\* path (the client returned) and on every error path (status 400 or above,
\* whatever the body).
C13_AuditEvents ==
    \A c \in Calls :
        /\ requests[c] # <<>>
             => \E i \in 1..Len(log[c]) : C13_RequestEventAt(c, i)
        /\ (Answered(c) /\ (client_outcome[c].kind = "return" \/ Resp(c).status_code >= 400))
             => \/ \E i, j \in 1..Len(log[c]) :
                      i < j /\ C13_RequestEventAt(c, i) /\ C13_CompletionEventAt(c, j)
                \/ C13_SpanCarriesUrlAndStatus(c)

-----------------------------------------------------------------------------
(* C14 *)

\* C14: once the `async with` block around the client is left, at its end or
\* by an exception raised inside it, the httpx client is closed, and the
\* exception that made the block leave is the one the block raises on.
C14_ScopeExitCloses ==
    scope.at = "exited" => (closed /\ scope.propagated = scope.raised)

\* A call inside the block raised the API error; the block was left by it,
\* the client is closed and the error went on to the block's caller.
C14_Witness ==
    /\ scope.at = "exited"
    /\ closed
    /\ scope.raised # {}
    /\ TheValue(scope.raised).type = "RuntimeError"
    /\ scope.propagated = scope.raised
    /\ \E c \in Calls : pc[c] = "done" /\ outcome[c] = Raise(TheValue(scope.raised))

-----------------------------------------------------------------------------
(* C15 *)

ToolHandlers == {"create_schema"} \cup IngestionHandlers

\* C15: when the client call of a tool handler raised (the token could not
\* be obtained, the transport failed, or the answer was an error), the
\* handler raises that same exception, with its kind and message, to its
\* caller and returns no value.
C15_HandlersReraise ==
    \A c \in Calls :
        (pc[c] = "done" /\ tool[c] \in ToolHandlers /\ client_outcome[c].kind = "raise")
        => outcome[c] = client_outcome[c]

\* create_schema's client call raised the API error and so did create_schema;
\* its `except` logged the failure first.
C15_Witness ==
    \E c \in Calls :
        /\ pc[c] = "done"
        /\ tool[c] = "create_schema"
        /\ client_outcome[c].kind = "raise"
        /\ client_outcome[c].exc.type = "RuntimeError"
        /\ outcome[c] = client_outcome[c]
        /\ log[c][Len(log[c])].event = "schema_creation_failed"

-----------------------------------------------------------------------------
(* C16 *)

\* What call c's own request and the answer to it (or its own transport
\* failure) make of the call.
C16_Own(c) ==
    EntryResult(tool[c], args[c],
                IF response[c] # {}
                THEN ClientResponse(requests[c][1].method, requests[c][1].url, Resp(c))
                ELSE ClientFailure(TheValue(failure[c])))

\* C16: with calls in flight at the same time, in any interleaving, what a
\* call returns or raises, the events it logs after its await and the status
\* on its span are those of its own request and of the answer to it.
C16_OwnResponseOnly ==
    \A c \in Calls :
        (pc[c] = "done" /\ requests[c] # <<>>)
        => LET own == C16_Own(c)
               n == Len(own.events)
           IN /\ outcome[c] = own.outcome
              /\ Len(log[c]) >= n
              /\ SubSeq(log[c], Len(log[c]) - n + 1, Len(log[c])) = own.events
              /\ response[c] # {} => span[c].http_status_code = {Resp(c).status_code}

\* Two calls to different URLs awaited at the same time; one was answered
\* 200 and returned, the other was answered 404 and raised.
C16_Witness ==
    \E c, d \in Calls :
        /\ c # d
        /\ Answered(c) /\ Resp(c).status_code = 200 /\ outcome[c].kind = "return"
        /\ Answered(d) /\ Resp(d).status_code = 404 /\ outcome[d].kind = "raise"
        /\ requests[c][1].url # requests[d][1].url
        /\ overlapped[c] /\ overlapped[d]

-----------------------------------------------------------------------------
(* C17 *)

\* C17: for each of the four verbs, a response with status below 400 makes
\* the call return a value and raise nothing, whatever the body is: status
\* 204 and other answers without a body to GET, POST and PATCH, and statuses
\* of the 300 range, included.
C17_Below400ReturnsValue ==
    \A c \in Calls :
        (Answered(c) /\ tool[c] \in ClientVerbs /\ Resp(c).status_code < 400)
        => outcome[c].kind = "return"

-----------------------------------------------------------------------------
(* C18 *)

\* C18: a response with status 400 or above makes each verb raise, never
\* return: the API error (RuntimeError) when the body parses as JSON,
\* whatever its shape (mapping, list, string, number, null), and the HTTP
\* status error when it does not parse; no other kind of error.
C18_ErrorClassification ==
    \A c \in Calls :
        (Answered(c) /\ tool[c] \in ClientVerbs /\ Resp(c).status_code >= 400)
        => /\ outcome[c].kind = "raise"
           /\ outcome[c].exc.type =
                IF Resp(c).content.json THEN "RuntimeError" ELSE "HTTPStatusError"

-----------------------------------------------------------------------------
(* C19 *)

\* C19: a call that dispatched a request had obtained its token; a call
\* whose get_token() raised ends by raising that exception, from the client
\* and to the caller, has dispatched no request and logged no request event.
C19_TokenBeforeDispatch ==
    \A c \in Calls :
        /\ requests[c] # <<>> => (token[c] # {} /\ TheValue(token[c]).ok)
        /\ (token[c] # {} /\ ~TheValue(token[c]).ok)
             => /\ pc[c] = "done"
                /\ client_outcome[c] = Raise(TheValue(TheValue(token[c]).exc))
                /\ outcome[c] = client_outcome[c]
                /\ requests[c] = <<>>
                /\ \A i \in 1..Len(log[c]) : log[c][i].event \notin RequestEvents

\* The identity service rejected the key in a delete_ingestion_job call: it
\* raised, sent nothing and logged only the handler's own events.
C19_Witness ==
    \E c \in Calls :
        /\ pc[c] = "done"
        /\ tool[c] = "delete_ingestion_job"
        /\ token[c] = {[ok |-> FALSE, token |-> "", exc |-> {[type |-> "ApiException"]}]}
        /\ outcome[c] = Raise([type |-> "ApiException"])
        /\ requests[c] = <<>>
        /\ Len(log[c]) = 2

-----------------------------------------------------------------------------
(* C20 *)

\* The text between "s3://" and the next "/" of s (or the end of s).
C20_SegmentAfterScheme(s) ==
    LET slashes == {k \in 6..Len(s) : SubSeq(s, k, k) = "/"}
        stop == IF slashes = {} THEN Len(s) + 1
                ELSE CHOOSE k \in slashes : \A j \in slashes : k <= j
    IN SubSeq(s, 6, stop - 1)

\* The request r is a POST to the ingestion jobs path whose body follows the
\* three rules for the arguments a.
C20_RequestFollowsRules(r, a) ==
    LET body == TheValue(r.json)
        source == Lookup(body, "source")
    IN
    /\ r.method = "POST"
    /\ r.url = BaseUrl \o "/v3/lhingestion/api/v1/ingestion/jobs"
    /\ HasKey(source, "file_format_properties") <=> a.file_type = "csv"
    /\ HasKey(body, "engine_id") <=> a.engine_id # NoneV
    /\ a.engine_id # NoneV => Lookup(body, "engine_id") = JStr(TheValue(a.engine_id))
    /\ Lookup(Lookup(source, "bucket_details"), "bucket_name") =
         IF a.bucket_name # NoneV THEN JStr(TheValue(a.bucket_name))
         ELSE IF StartsWith(a.file_paths, "s3://")
              THEN JStr(C20_SegmentAfterScheme(a.file_paths))
              ELSE JNull

\* C20 as stated: every create_ingestion_job call makes exactly one POST to
\* /v3/lhingestion/api/v1/ingestion/jobs, with a body that follows the rules
\* for file_format_properties, engine_id and the bucket name.
C20_ExactlyOnePost ==
    \A c \in Calls :
        tool[c] = "create_ingestion_job"
        => /\ Len(requests[c]) = 1
           /\ C20_RequestFollowsRules(requests[c][1], args[c])

\* C20 amended: a create_ingestion_job call whose token was obtained makes
\* exactly one POST to that path, with a body that follows the rules; a call
\* whose get_token() raised makes none.
C20_OnePostWhenTokenObtained ==
    \A c \in Calls :
        tool[c] = "create_ingestion_job"
        => IF TheValue(token[c]).ok
           THEN /\ Len(requests[c]) = 1
                /\ C20_RequestFollowsRules(requests[c][1], args[c])
           ELSE requests[c] = <<>>

\* A parquet job without bucket_name and engine_id, from an s3:// path, was
\* posted with the bucket of the path and was answered.
C20_Witness ==
    \E c \in Calls :
        /\ Answered(c)
        /\ tool[c] = "create_ingestion_job"
        /\ args[c].file_type = "parquet"
        /\ args[c].bucket_name = NoneV
        /\ args[c].engine_id = NoneV
        /\ args[c].file_paths = "s3://bkt/d/f.csv"
        /\ Len(requests[c]) = 1
        /\ Lookup(Lookup(Lookup(TheValue(requests[c][1].json), "source"),
                         "bucket_details"), "bucket_name") = JStr("bkt")

-----------------------------------------------------------------------------
(* C21 *)

\* The decimal text of an integer, with a leading "-" when it is negative.
C21_Decimal(n) == IF n < 0 THEN "-" \o ToString(0 - n) ELSE ToString(n)

\* The path the claim describes for the arguments a: `start=<start>` exactly
\* when start was supplied, `limit=<limit>` exactly when limit was, start
\* first, "&" between the two, and "?" only when there is one of them.
C21_ExpectedPath(a) ==
    "/v3/lhingestion/api/v1/ingestion/jobs"
    \o (IF a.start # NoneV \/ a.limit # NoneV THEN "?" ELSE "")
    \o (IF a.start # NoneV THEN "start=" \o C21_Decimal(TheValue(a.start)) ELSE "")
    \o (IF a.start # NoneV /\ a.limit # NoneV THEN "&" ELSE "")
    \o (IF a.limit # NoneV THEN "limit=" \o C21_Decimal(TheValue(a.limit)) ELSE "")

\* The requests of call c are one GET, to that path under the base URL.
C21_OneGetToPath(c) ==
    /\ Len(requests[c]) = 1
    /\ requests[c][1].method = "GET"
    /\ requests[c][1].url = BaseUrl \o C21_ExpectedPath(args[c])

\* C21 as stated: every list_ingestion_jobs call makes exactly one GET, to
\* the path built from start and limit by the rules above.
C21_ExactlyOneGet ==
    \A c \in Calls :
        tool[c] = "list_ingestion_jobs" => C21_OneGetToPath(c)

\* C21 amended: a list_ingestion_jobs call whose token was obtained makes
\* exactly one GET, to the path built by the rules above; a call whose
\* get_token() raised makes none.
C21_OneGetWhenTokenObtained ==
    \A c \in Calls :
        tool[c] = "list_ingestion_jobs"
        => IF TheValue(token[c]).ok
           THEN C21_OneGetToPath(c)
           ELSE requests[c] = <<>>

\* A call with start 0 and limit -1 sent its GET with both parameters.
C21_Witness ==
    \E c \in Calls :
        /\ tool[c] = "list_ingestion_jobs"
        /\ args[c].start = Some(0)
        /\ args[c].limit = Some(0 - 1)
        /\ Len(requests[c]) = 1
        /\ requests[c][1].url =
             BaseUrl \o "/v3/lhingestion/api/v1/ingestion/jobs?start=0&limit=-1"

====
